---- MODULE Spec2Model ----
\* The interactive COVID-19 data explorer of introToPlotly.ipynb (section 5):
\* createTraces, createButtons, createDropdown, the two figure cells that
\* assemble them, and the two kinds of menu click the exported figure answers.
\*
\* Python lists are 0-based; the sequences below are 1-based, so Python index
\* i is index i + 1 here (trace 0 is traces[1], button 0 is buttons[1], and
\* Plotly's default `active = 0` is active = 1).
EXTENDS Integers, Sequences, FiniteSets, TLC

VARIABLES
    dfC,                \* the WHO table, one record per row
    columns,            \* the list of series names given to the builders
    rollingAve,         \* the rolling window
    pc,                 \* the next notebook cell to run
    availableCountries, \* the list computed by cell f3a4f4e4
    traces,             \* fig.data
    updatemenus,        \* fig.layout.updatemenus
    title_text,         \* fig.layout.title.text
    selected,           \* history: the subject selected last (the default at build)
    builtData,          \* history: the x/y arrays createTraces computed
    firstData,          \* history: per subject, the x/y arrays after its first selection
    series,             \* a raw column handed to rolling(w).mean() on its own
    rolled              \* the result of rolling(w).mean() on `series`

vars == <<dfC, columns, rollingAve, pc, availableCountries, traces, updatemenus,
          title_text, selected, builtData, firstData, series, rolled>>

-----------------------------------------------------------------------------
\* Bounds of the model.

\* The largest number of rows one country has in dfC.
MaxRows == 2

\* The largest number of series names in `columns`.
MaxCols == 2

\* The largest length of a column handed to rolling(w).mean() on its own.
MaxSeriesLen == 6

-----------------------------------------------------------------------------
\* Values of a numeric column. A number is a fraction num/den; NaN (pandas'
\* missing value) is the fraction with den = 0. A rolling mean over w values is
\* kept as sum/w, unreduced.

NaN == [num |-> 0, den |-> 0]

Num(v) == [num |-> v, den |-> 1]

IsNaN(v) == v.den = 0

\* The default subject of the notebook.
country == "United States of America"

\* The rolling window the notebook sets.
DefaultRollingAve == 7

\* The four series the notebook plots.
ColumnNames == {"New_cases", "New_deaths", "Cumulative_cases", "Cumulative_deaths"}

\* The countries of the table, in the order of the file (alphabetical).
CountryOrder == <<"Afghanistan", "Brazil", "United States of America">>

Countries == {CountryOrder[i] : i \in 1..Len(CountryOrder)}

\* The reported numbers of country c on day d. The first two days of the
\* United States and the first day of Brazil are the rows of the scenario of
\* the specification (5,1), (7,2) and (10,0); some cells are missing.
NewCases(c, d) ==
    CASE c = "United States of America" -> Num(2 * d + 3)
      [] c = "Brazil" -> IF d = 2 THEN NaN ELSE Num(10 * d)
      [] OTHER -> IF d = 1 THEN NaN ELSE Num(d)

NewDeaths(c, d) ==
    CASE c = "United States of America" -> Num(d)
      [] c = "Brazil" -> Num(d - 1)
      [] OTHER -> IF d = 3 THEN NaN ELSE Num(4)

\* The cumulative count of a column up to day d (a missing report adds nothing).
Cumulative(col, c, d) ==
    LET New(i) == IF col = "New_cases" THEN NewCases(c, i) ELSE NewDeaths(c, i)
        F[i \in 0..d] ==
            IF i = 0 THEN 0
            ELSE F[i - 1] + (IF IsNaN(New(i)) THEN 0 ELSE New(i).num)
    IN  Num(F[d])

Row(c, d) ==
    [Country |-> c, Date_reported |-> d,
     New_cases |-> NewCases(c, d), New_deaths |-> NewDeaths(c, d),
     Cumulative_cases |-> Cumulative("New_cases", c, d),
     Cumulative_deaths |-> Cumulative("New_deaths", c, d)]

\* The table in which country c has the rows of days 1..n[c], grouped by
\* country in file order and sorted by date within a country.
Table(n) ==
    LET F[i \in 0..Len(CountryOrder)] ==
            IF i = 0 THEN <<>>
            ELSE F[i - 1] \o [d \in 1..n[CountryOrder[i]] |-> Row(CountryOrder[i], d)]
    IN  F[Len(CountryOrder)]

Datasets == {Table(n) : n \in [Countries -> 0..MaxRows]}

\* The lists of series names: non-empty, without repetition.
ColumnLists ==
    UNION {{s \in [1..k -> ColumnNames] : \A i, j \in 1..k : s[i] = s[j] => i = j}
           : k \in 1..MaxCols}

\* The list of series names of the notebook, in its order.
NotebookColumns ==
    <<"New_cases", "New_deaths", "Cumulative_cases", "Cumulative_deaths">>

\* The leading parts of the notebook's list, as lists of series names.
ColumnPrefixes == {SubSeq(NotebookColumns, 1, k) : k \in 1..MaxCols}

\* The subject lists createDropdown may be given: non-empty, without
\* repetition, over the country names, with or without rows in the table.
SubjectLists ==
    UNION {{l \in [1..k -> Countries] : \A i, j \in 1..k : l[i] = l[j] => i = j}
           : k \in 1..Len(CountryOrder)}

\* The raw columns handed to rolling(w).mean() on their own.
RawValues == {NaN, Num(1), Num(2)}

SeriesInputs == UNION {[1..k -> RawValues] : k \in 0..MaxSeriesLen}

-----------------------------------------------------------------------------
\* pandas and list operations the notebook calls.

\* df.loc[df['Country'] == c]
Loc(df, c) == SelectSeq(df, LAMBDA r : r.Country = c)

\* df[name]
Col(df, name) ==
    LET F[i \in 0..Len(df)] ==
            IF i = 0 THEN <<>> ELSE Append(F[i - 1], df[i][name])
    IN  F[Len(df)]

\* RollingMean as rolling(w, min_periods = 1).mean() would be: a value as soon as
\* the window holds one observation.
RollingMean_MinPeriodsOne(s, w) ==
    [i \in 1..Len(s) |->
        LET lo == IF i - w + 1 > 1 THEN i - w + 1 ELSE 1
            obs == {j \in lo..i : ~IsNaN(s[j])}
            nobs == Cardinality(obs)
            Sum[j \in (lo - 1)..i] ==
                IF j < lo THEN 0
                ELSE Sum[j - 1] + (IF j \in obs THEN s[j].num ELSE 0)
        IN  IF nobs >= 1 THEN [num |-> Sum[i], den |-> nobs] ELSE NaN]

\* RollingMean as s.fillna(0).rolling(w).mean() would be: a missing value
\* counted as the number 0.
RollingMean_FillZero(s, w) ==
    [i \in 1..Len(s) |->
        LET lo == IF i - w + 1 > 1 THEN i - w + 1 ELSE 1
            nobs == i - lo + 1
            Sum[j \in (lo - 1)..i] ==
                IF j < lo THEN 0
                ELSE Sum[j - 1] + (IF IsNaN(s[j]) THEN 0 ELSE s[j].num)
        IN  IF nobs >= w /\ nobs > 0 THEN [num |-> Sum[i], den |-> nobs] ELSE NaN]

\* s.rolling(w): pandas accepts an integer window of 0 or more and raises
\* ValueError ("window must be an integer 0 or greater") for a negative one.
RollingRaises(w) == w < 0

\* s.rolling(w).mean(): a trailing window of w rows with min_periods = w. The
\* value at row i is the mean of the observations (non-missing values) in rows
\* i-w+1..i, and is missing when the window holds fewer than w observations or
\* none at all (a window of 0 rows holds none).
RollingMean(s, w) ==
    [i \in 1..Len(s) |->
        LET lo == IF i - w + 1 > 1 THEN i - w + 1 ELSE 1
            obs == {j \in lo..i : ~IsNaN(s[j])}
            nobs == Cardinality(obs)
            Sum[j \in (lo - 1)..i] ==
                IF j < lo THEN 0
                ELSE Sum[j - 1] + (IF j \in obs THEN s[j].num ELSE 0)
        IN  IF nobs >= w /\ nobs > 0 THEN [num |-> Sum[i], den |-> nobs] ELSE NaN]

\* s.unique().tolist(): the distinct values in order of first appearance.
Unique(s) ==
    LET F[i \in 0..Len(s)] ==
            IF i = 0 THEN <<>>
            ELSE LET seen == F[i - 1]
                 IN  IF \E j \in 1..Len(seen) : seen[j] = s[i]
                     THEN seen
                     ELSE Append(seen, s[i])
    IN  F[Len(s)]

\* l.index(v): the first position of v (the caller checks that v occurs).
Index(l, v) == CHOOSE i \in 1..Len(l) : l[i] = v /\ \A j \in 1..(i - 1) : l[j] # v

\* MoveToFront as l[0], l[p] = l[p], l[0] would be: v exchanged with the
\* first element.
MoveToFront_Swap(l, v) ==
    LET p == Index(l, v)
    IN  [i \in 1..Len(l) |-> IF i = 1 THEN l[p] ELSE IF i = p THEN l[1] ELSE l[i]]

\* l.insert(0, l.pop(l.index(v)))
MoveToFront(l, v) ==
    LET p == Index(l, v)
    IN  <<l[p]>> \o SubSeq(l, 1, p - 1) \o SubSeq(l, p + 1, Len(l))

\* label.replace('_', ' ')
ReplaceUnderscores(name) ==
    CASE name = "New_cases" -> "New cases"
      [] name = "New_deaths" -> "New deaths"
      [] name = "Cumulative_cases" -> "Cumulative cases"
      [] name = "Cumulative_deaths" -> "Cumulative deaths"
      [] OTHER -> name

\* dfCCountry = dfC.loc[dfC['Country'] == country]
dfCCountry == Loc(dfC, country)

-----------------------------------------------------------------------------
\* The builders of the notebook.

\* createTraces with every trace visible (the `visible` argument forgotten).
createTraces_AllVisible(cols) ==
    [i \in 1..Len(cols) |->
        [x |-> Col(dfCCountry, "Date_reported"),
         y |-> RollingMean(Col(dfCCountry, cols[i]), rollingAve),
         mode |-> "lines",
         fill |-> "tozeroy",
         name |-> "COVID Count",
         visible |-> TRUE]]

\* createTraces with the last trace, not the first, visible.
createTraces_LastVisible(cols) ==
    [i \in 1..Len(cols) |->
        [x |-> Col(dfCCountry, "Date_reported"),
         y |-> RollingMean(Col(dfCCountry, cols[i]), rollingAve),
         mode |-> "lines",
         fill |-> "tozeroy",
         name |-> "COVID Count",
         visible |-> (i = Len(cols))]]

\* createTraces plotting the raw column, as the bar chart of section 5 does.
createTraces_Raw(cols) ==
    [i \in 1..Len(cols) |->
        [x |-> Col(dfCCountry, "Date_reported"),
         y |-> Col(dfCCountry, cols[i]),
         mode |-> "lines",
         fill |-> "tozeroy",
         name |-> "COVID Count",
         visible |-> (i = 1)]]

createTraces(cols) ==
    [i \in 1..Len(cols) |->
        [x |-> Col(dfCCountry, "Date_reported"),
         y |-> RollingMean(Col(dfCCountry, cols[i]), rollingAve),
         mode |-> "lines",
         fill |-> "tozeroy",
         name |-> "COVID Count",
         visible |-> (i = 1)]]

\* createButtons whose buttons never hide the first trace.
createButtons_KeepsFirst(cols) ==
    [type |-> "buttons",
     direction |-> "left",
     buttons |-> [i \in 1..Len(cols) |->
                    [args |-> <<[visible |-> [j \in 1..Len(cols) |-> i = j \/ j = 1]]>>,
                     label |-> ReplaceUnderscores(cols[i]),
                     method |-> "restyle"]],
     showactive |-> TRUE,
     active |-> 1]

\* createButtons with the comparison the wrong way round for the inner index
\* (range(1, len(columns) + 1) in place of range(len(columns))).
createButtons_OffByOne(cols) ==
    [type |-> "buttons",
     direction |-> "left",
     buttons |-> [i \in 1..Len(cols) |->
                    [args |-> <<[visible |-> [j \in 1..Len(cols) |-> i = j + 1]]>>,
                     label |-> ReplaceUnderscores(cols[i]),
                     method |-> "restyle"]],
     showactive |-> TRUE,
     active |-> 1]

\* createButtons whose buttons also send the y arrays of the default subject.
createButtons_SendsData(cols) ==
    [type |-> "buttons",
     direction |-> "left",
     buttons |-> [i \in 1..Len(cols) |->
                    [args |-> <<[visible |-> [j \in 1..Len(cols) |-> i = j],
                               y |-> [j \in 1..Len(cols) |-> createTraces(cols)[j].y]]>>,
                     label |-> ReplaceUnderscores(cols[i]),
                     method |-> "restyle"]],
     showactive |-> TRUE,
     active |-> 1]

createButtons(cols) ==
    [type |-> "buttons",
     direction |-> "left",
     buttons |-> [i \in 1..Len(cols) |->
                    [args |-> <<[visible |-> [j \in 1..Len(cols) |-> i = j]]>>,
                     label |-> ReplaceUnderscores(cols[i]),
                     method |-> "restyle"]],
     showactive |-> TRUE,
     active |-> 1]

\* createDropdown whose entries also reset the visibility to the first trace.
createDropdown_ResetsVisible(avail, cols) ==
    [type |-> "dropdown",
     direction |-> "down",
     buttons |-> [k \in 1..Len(avail) |->
                    [args |-> <<[x |-> [j \in 1..Len(cols) |->
                                        Col(Loc(dfC, avail[k]), "Date_reported")],
                               y |-> [j \in 1..Len(cols) |->
                                        RollingMean(Col(Loc(dfC, avail[k]), cols[j]),
                                                    rollingAve)],
                               visible |-> [j \in 1..Len(cols) |-> j = 1]]>>,
                     label |-> avail[k],
                     method |-> "update"]],
     showactive |-> TRUE,
     active |-> 1]

\* createDropdown taking the y arrays from dfCCountry, the default subject's
\* rows, as createTraces does, in place of the rows of the entry's subject.
createDropdown_DefaultSubjectY(avail, cols) ==
    [type |-> "dropdown",
     direction |-> "down",
     buttons |-> [k \in 1..Len(avail) |->
                    [args |-> <<[x |-> [j \in 1..Len(cols) |->
                                        Col(Loc(dfC, avail[k]), "Date_reported")],
                               y |-> [j \in 1..Len(cols) |->
                                        RollingMean(Col(dfCCountry, cols[j]),
                                                    rollingAve)]]>>,
                     label |-> avail[k],
                     method |-> "update"]],
     showactive |-> TRUE,
     active |-> 1]

\* createDropdown listing the y arrays in the reverse of the trace order.
createDropdown_Reversed(avail, cols) ==
    [type |-> "dropdown",
     direction |-> "down",
     buttons |-> [k \in 1..Len(avail) |->
                    [args |-> <<[x |-> [j \in 1..Len(cols) |->
                                        Col(Loc(dfC, avail[k]), "Date_reported")],
                               y |-> [j \in 1..Len(cols) |->
                                        RollingMean(Col(Loc(dfC, avail[k]),
                                                        cols[Len(cols) + 1 - j]),
                                                    rollingAve)]]>>,
                     label |-> avail[k],
                     method |-> "update"]],
     showactive |-> TRUE,
     active |-> 1]

\* createDropdown taking the rolling mean over the whole column of the table
\* and the rows of the entry's subject afterwards, as
\* dfC[c].rolling(w).mean().loc[dfC['Country'] == country] would.
createDropdown_RollThenFilter(avail, cols) ==
    LET Keep(vals, c) ==
            LET F[i \in 0..Len(dfC)] ==
                    IF i = 0 THEN <<>>
                    ELSE LET kept == F[i - 1]
                         IN  IF dfC[i].Country = c THEN Append(kept, vals[i]) ELSE kept
            IN  F[Len(dfC)]
    IN  [type |-> "dropdown",
         direction |-> "down",
         buttons |-> [k \in 1..Len(avail) |->
                        [args |-> <<[x |-> [j \in 1..Len(cols) |->
                                            Col(Loc(dfC, avail[k]), "Date_reported")],
                                   y |-> [j \in 1..Len(cols) |->
                                            Keep(RollingMean(Col(dfC, cols[j]), rollingAve),
                                                 avail[k])]]>>,
                         label |-> avail[k],
                         method |-> "update"]],
         showactive |-> TRUE,
         active |-> 1]

\* createDropdown whose entries also carry a layout change, a title naming
\* the entry's subject.
createDropdown_SetsTitle(avail, cols) ==
    [type |-> "dropdown",
     direction |-> "down",
     buttons |-> [k \in 1..Len(avail) |->
                    [args |-> <<[x |-> [j \in 1..Len(cols) |->
                                        Col(Loc(dfC, avail[k]), "Date_reported")],
                               y |-> [j \in 1..Len(cols) |->
                                        RollingMean(Col(Loc(dfC, avail[k]), cols[j]),
                                                    rollingAve)]],
                              [title_text |-> [country |-> avail[k],
                                               rollingAve |-> rollingAve]]>>,
                     label |-> avail[k],
                     method |-> "update"]],
     showactive |-> TRUE,
     active |-> 1]

createDropdown(avail, cols) ==
    [type |-> "dropdown",
     direction |-> "down",
     buttons |-> [k \in 1..Len(avail) |->
                    [args |-> <<[x |-> [j \in 1..Len(cols) |->
                                        Col(Loc(dfC, avail[k]), "Date_reported")],
                               y |-> [j \in 1..Len(cols) |->
                                        RollingMean(Col(Loc(dfC, avail[k]), cols[j]),
                                                    rollingAve)]]>>,
                     label |-> avail[k],
                     method |-> "update"]],
     showactive |-> TRUE,
     active |-> 1]

\* 'COVID-19 Data Explorer : ' + country + '<br>(' + str(rollingAve) + '-day rolling average)'
TitleText == [country |-> country, rollingAve |-> rollingAve]

\* The x/y arrays of a list of traces.
XY(trs) == [i \in 1..Len(trs) |-> [x |-> trs[i].x, y |-> trs[i].y]]

NoData == [c \in Countries |-> <<>>]

-----------------------------------------------------------------------------
\* What method 'update' does with the layout argument (the second element of
\* args) when an entry gives one; method 'restyle' has no layout argument.
ApplyLayout(title, method, args) ==
    IF method = "update" /\ Len(args) >= 2 /\ "title_text" \in DOMAIN args[2]
    THEN args[2].title_text
    ELSE title

\* What the figure does with the argument of a clicked menu entry: every
\* attribute named in the argument carries a list with one value per trace,
\* and trace i takes the i-th value (the list is cycled when it is shorter).
ApplyData(trs, upd) ==
    [i \in 1..Len(trs) |->
        [f \in DOMAIN trs[i] |->
            IF f \in DOMAIN upd
            THEN upd[f][((i - 1) % Len(upd[f])) + 1]
            ELSE trs[i][f]]]

-----------------------------------------------------------------------------
\* The state after the cells that load the data and define the builders.
Init ==
    /\ dfC \in Datasets
    /\ columns \in ColumnLists
    /\ rollingAve \in (-1)..(MaxRows + 1)
    /\ pc = "88c8a2c4"
    /\ availableCountries = <<>>
    /\ traces = <<>>
    /\ updatemenus = <<>>
    /\ title_text = [country |-> "", rollingAve |-> 0]
    /\ selected = ""
    /\ builtData = <<>>
    /\ firstData = NoData
    /\ series = <<>>
    /\ rolled = <<>>

\* Cell 88c8a2c4: the figure of section 5.1, traces and series buttons. With
\* a negative window the first rolling(rollingAve) inside createTraces raises
\* and the cell stops before anything is assigned.
Cell_88c8a2c4 ==
    /\ pc = "88c8a2c4"
    /\ IF RollingRaises(rollingAve)
       THEN /\ pc' = "ValueError_window"
            /\ UNCHANGED <<traces, updatemenus, title_text, selected, builtData,
                           firstData>>
       ELSE /\ traces' = createTraces(columns)
            /\ updatemenus' = <<createButtons(columns)>>
            /\ title_text' = TitleText
            /\ selected' = country
            /\ builtData' = XY(traces')
            /\ firstData' = NoData
            /\ pc' = "f3a4f4e4"
    /\ UNCHANGED <<dfC, columns, rollingAve, availableCountries, series, rolled>>

\* Cell f3a4f4e4: the list of countries, the default one moved to the front.
\* list.index raises ValueError when the default country has no row.
Cell_f3a4f4e4 ==
    /\ pc = "f3a4f4e4"
    /\ LET l == Unique(Col(dfC, "Country")) IN
       IF \E i \in 1..Len(l) : l[i] = "United States of America"
       THEN /\ availableCountries' = MoveToFront(l, "United States of America")
            /\ pc' = "0d3e6c1d"
       ELSE /\ availableCountries' = l
            /\ pc' = "ValueError"
    /\ UNCHANGED <<dfC, columns, rollingAve, traces, updatemenus, title_text,
                   selected, builtData, firstData, series, rolled>>

\* Cell 0d3e6c1d: the figure of section 5.2, traces, series buttons and the
\* subject dropdown.
Cell_0d3e6c1d ==
    /\ pc = "0d3e6c1d"
    /\ traces' = createTraces(columns)
    /\ updatemenus' = <<createButtons(columns),
                        createDropdown(availableCountries, columns)>>
    /\ title_text' = TitleText
    /\ selected' = country
    /\ builtData' = XY(traces')
    /\ firstData' = NoData
    /\ pc' = "done"
    /\ UNCHANGED <<dfC, columns, rollingAve, availableCountries, series, rolled>>

\* A click on entry b of menu m. Method 'restyle' applies the argument to the
\* traces; method 'update' applies its data argument to the traces and its
\* layout argument, which the notebook never gives, to the layout. The menu
\* marks the clicked entry active.
MenuClick(m, b) ==
    /\ m \in 1..Len(updatemenus)
    /\ b \in 1..Len(updatemenus[m].buttons)
    /\ LET btn == updatemenus[m].buttons[b] IN
       /\ traces' = ApplyData(traces, btn.args[1])
       /\ title_text' = ApplyLayout(title_text, btn.method, btn.args)
       /\ updatemenus' = [updatemenus EXCEPT ![m].active = b]
       /\ IF btn.method = "update"
          THEN /\ selected' = btn.label
               /\ firstData' = IF firstData[btn.label] = <<>>
                               THEN [firstData EXCEPT ![btn.label] = XY(traces')]
                               ELSE firstData
          ELSE UNCHANGED <<selected, firstData>>
    /\ UNCHANGED <<dfC, columns, rollingAve, pc, availableCountries, builtData,
                   series, rolled>>

\* A click on series button i (the first menu of either figure).
ClickSeriesButton(i) == MenuClick(1, i)

\* The choice of entry k of the subject dropdown (the second menu).
SelectSubject(k) == MenuClick(2, k)

Next ==
    \/ Cell_88c8a2c4
    \/ Cell_f3a4f4e4
    \/ Cell_0d3e6c1d
    \/ \E i \in 1..Len(columns) : ClickSeriesButton(i)
    \/ \E k \in 1..Len(availableCountries) : SelectSubject(k)

Spec == Init /\ [][Next]_vars

-----------------------------------------------------------------------------
\* createDropdown on any subject list: the state before the figure cell of
\* section 5.2 with availableCountries any list of country names, then that
\* cell and the clicks on the figure it builds.

DropInit ==
    /\ dfC \in Datasets
    /\ columns \in ColumnPrefixes
    /\ rollingAve \in 1..(MaxRows + 1)
    /\ availableCountries \in SubjectLists
    /\ pc = "0d3e6c1d"
    /\ traces = <<>>
    /\ updatemenus = <<>>
    /\ title_text = [country |-> "", rollingAve |-> 0]
    /\ selected = ""
    /\ builtData = <<>>
    /\ firstData = NoData
    /\ series = <<>>
    /\ rolled = <<>>

DropNext ==
    \/ Cell_0d3e6c1d
    \/ \E i \in 1..Len(columns) : ClickSeriesButton(i)
    \/ \E k \in 1..Len(availableCountries) : SelectSubject(k)

DropSpec == DropInit /\ [][DropNext]_vars

-----------------------------------------------------------------------------
\* rolling(w).mean() on its own: a column and a window are drawn, the rolling
\* mean is taken once.

RollInit ==
    /\ series \in SeriesInputs
    /\ rollingAve \in 1..(MaxSeriesLen + 1)
    /\ pc = "rolling"
    /\ rolled = <<>>
    /\ dfC = <<>>
    /\ columns = <<>>
    /\ availableCountries = <<>>
    /\ traces = <<>>
    /\ updatemenus = <<>>
    /\ title_text = [country |-> "", rollingAve |-> 0]
    /\ selected = ""
    /\ builtData = <<>>
    /\ firstData = NoData

RollApply ==
    /\ pc = "rolling"
    /\ rolled' = RollingMean(series, rollingAve)
    /\ pc' = "rolled"
    /\ UNCHANGED <<dfC, columns, rollingAve, availableCountries, traces, updatemenus,
                   title_text, selected, builtData, firstData, series>>

RollNext == RollApply

RollSpec == RollInit /\ [][RollNext]_vars

-----------------------------------------------------------------------------
\* What the specification says the figure holds, stated from the table alone.

\* The rows of subject s, in table order.
SubjectRows(s) ==
    LET idx == {i \in 1..Len(dfC) : dfC[i].Country = s}
        nth(k) == CHOOSE i \in idx : Cardinality({j \in idx : j < i}) = k - 1
    IN  [k \in 1..Cardinality(idx) |-> dfC[nth(k)]]

\* The dates of subject s.
SubjectDates(s) ==
    LET r == SubjectRows(s) IN [i \in 1..Len(r) |-> r[i].Date_reported]

\* The trailing mean of v at position i over a window of w: absent when fewer
\* than w values precede and include i, or when one of them is absent; an
\* empty window (w = 0) has no mean.
TrailingMean(v, w, i) ==
    IF w <= 0 \/ i < w \/ \E j \in (i - w + 1)..i : IsNaN(v[j])
    THEN NaN
    ELSE LET S[j \in (i - w)..i] == IF j = i - w THEN 0 ELSE S[j - 1] + v[j].num
         IN  [num |-> S[i], den |-> w]

\* The series `col` of subject s under the window of the figure.
SubjectSeries(s, col) ==
    LET r == SubjectRows(s)
        v == [i \in 1..Len(r) |-> r[i][col]]
    IN  [i \in 1..Len(r) |-> TrailingMean(v, rollingAve, i)]

\* The indices of the visible traces.
VisibleTraces == {i \in 1..Len(traces) : traces[i].visible}

\* The visibility flags of a list of traces.
Visibility(trs) == [i \in 1..Len(trs) |-> trs[i].visible]

\* A figure has been built (either figure cell has run).
FigureBuilt == updatemenus # <<>>

\* The figure with both menus has been built.
DropdownBuilt == pc = "done"

\* The table of the scenario of the specification: subject A (here the default
\* subject) with two rows, subject B (here Brazil) with one.
ScenarioTable ==
    Table([c \in Countries |->
            IF c = country THEN 2 ELSE IF c = "Brazil" THEN 1 ELSE 0])

-----------------------------------------------------------------------------
\* C1: in every state of a built figure, whatever buttons were clicked and
\* subjects selected, exactly one trace is visible.
C1_ExactlyOneVisible ==
    FigureBuilt => Cardinality(VisibleTraces) = 1

\* C1 witness: the figure with both menus, after a click on the second button
\* and the selection of another subject.
C1_Witness ==
    /\ DropdownBuilt
    /\ Len(traces) = 2
    /\ updatemenus[1].active = 2
    /\ updatemenus[2].active = 2
    /\ VisibleTraces = {2}

C3_ButtonVectors ==
    FigureBuilt =>
        /\ updatemenus[1].type = "buttons"
        /\ Len(updatemenus[1].buttons) = Len(columns)
        /\ \A i \in 1..Len(columns) :
              LET v == updatemenus[1].buttons[i].args[1].visible IN
              /\ updatemenus[1].buttons[i].method = "restyle"
              /\ DOMAIN v = 1..Len(columns)
              /\ \A j \in 1..Len(columns) : v[j] = (j = i)

\* C3 witness: a built series selector of two buttons.
C3_Witness ==
    /\ FigureBuilt
    /\ Len(updatemenus[1].buttons) = 2
    /\ updatemenus[1].buttons[2].args[1].visible = <<FALSE, TRUE>>

\* C4: a subject selection changes neither the number of traces nor any
\* visibility flag.
C4_SelectKeepsVisibility ==
    [][\A k \in 1..Len(availableCountries) :
          SelectSubject(k) =>
              /\ Len(traces') = Len(traces)
              /\ Visibility(traces') = Visibility(traces)]_vars

\* C4 witness: the second trace is visible, through a click, while a subject
\* other than the default one, with other data, is selected.
C4_Witness ==
    /\ DropdownBuilt
    /\ Len(traces) = 2
    /\ selected = "Brazil"
    /\ Visibility(traces) = <<FALSE, TRUE>>
    /\ XY(traces) # builtData

\* C5: every dropdown entry carries len(columns) x arrays and len(columns) y
\* arrays, the k-th pair being the dates of its subject and the rolling mean of
\* the k-th series over its subject's rows; in the scenario with window 1,
\* selecting B gives trace 0 y = [10] and trace 1 y = [0].
C5_DropdownPayload ==
    DropdownBuilt =>
        /\ Len(updatemenus[2].buttons) = Len(availableCountries)
        /\ \A k \in 1..Len(availableCountries) :
              LET e == updatemenus[2].buttons[k] IN
              /\ e.label = availableCountries[k]
              /\ e.method = "update"
              /\ DOMAIN e.args[1].x = 1..Len(columns)
              /\ DOMAIN e.args[1].y = 1..Len(columns)
              /\ \A j \in 1..Len(columns) :
                    /\ e.args[1].x[j] = SubjectDates(e.label)
                    /\ e.args[1].y[j] = SubjectSeries(e.label, columns[j])
        /\ (/\ dfC = ScenarioTable
            /\ rollingAve = 1
            /\ columns = <<"New_cases", "New_deaths">>
            /\ selected = "Brazil")
           => /\ traces[1].x = <<1>> /\ traces[1].y = <<Num(10)>>
              /\ traces[2].x = <<1>> /\ traces[2].y = <<Num(0)>>

\* C5 witness: the scenario, B selected after the figure showed A's
\* [5, 7] and [1, 2].
C5_Witness ==
    /\ DropdownBuilt
    /\ dfC = ScenarioTable
    /\ rollingAve = 1
    /\ columns = <<"New_cases", "New_deaths">>
    /\ builtData = <<[x |-> <<1, 2>>, y |-> <<Num(5), Num(7)>>],
                     [x |-> <<1, 2>>, y |-> <<Num(1), Num(2)>>]>>
    /\ selected = "Brazil"
    /\ traces[1].y = <<Num(10)>>

\* C6: in every state of a built figure all traces, visible or hidden, hold
\* the data of the subject selected last (the default subject before any
\* selection).
C6_TracesOfOneSubject ==
    FigureBuilt =>
        \A j \in 1..Len(traces) :
            /\ traces[j].x = SubjectDates(selected)
            /\ traces[j].y = SubjectSeries(selected, columns[j])

\* C6 witness: after a subject change and a click, the trace that was hidden
\* during the change is visible, and the subject's data differs from the
\* default subject's.
C6_Witness ==
    /\ DropdownBuilt
    /\ Len(traces) = 2
    /\ selected = "Afghanistan"
    /\ updatemenus[1].active = 2
    /\ traces[2].visible
    /\ traces[2].y # builtData[2].y
    /\ Len(traces[2].y) > 0

\* C7: whenever a subject is selected again, every trace has the x/y arrays it
\* had after the first selection of that subject; and whenever the default
\* subject is selected, the arrays are those createTraces computed.
C7_RoundTrip ==
    DropdownBuilt =>
        /\ firstData[selected] # <<>> => XY(traces) = firstData[selected]
        /\ selected = country => XY(traces) = builtData

\* C7 witness: the default subject selected from the dropdown after two other
\* subjects were, with data that tells the three apart.
C7_Witness ==
    /\ DropdownBuilt
    /\ selected = country
    /\ updatemenus[2].active = 1
    /\ firstData[country] # <<>>
    /\ firstData["Brazil"] # <<>>
    /\ firstData["Afghanistan"] # <<>>
    /\ firstData["Brazil"] # firstData[country]
    /\ firstData["Afghanistan"] # firstData[country]

\* C8: a click on a series button changes no x array, no y array and not the
\* selected subject.
C8_ClickKeepsData ==
    [][\A i \in 1..Len(columns) :
          ClickSeriesButton(i) =>
              /\ XY(traces') = XY(traces)
              /\ selected' = selected
              /\ Len(updatemenus) = 2 => updatemenus'[2] = updatemenus[2]]_vars

\* C8 witness: a click made the second trace visible while the traces hold
\* the data of a subject other than the default one.
C8_Witness ==
    /\ DropdownBuilt
    /\ selected = "Brazil"
    /\ updatemenus[1].active = 2
    /\ VisibleTraces = {2}
    /\ XY(traces) = firstData["Brazil"]
    /\ XY(traces) # builtData

\* C9: in every state of a built figure the series selector marks one of its
\* buttons active, and that button's index is the index of the one visible
\* trace.
C9_ActiveButtonIsVisibleTrace ==
    FigureBuilt =>
        /\ updatemenus[1].showactive
        /\ updatemenus[1].active \in 1..Len(updatemenus[1].buttons)
        /\ VisibleTraces = {updatemenus[1].active}

\* C9 witness: the second button is active and the second trace the visible
\* one, after a subject selection.
C9_Witness ==
    /\ DropdownBuilt
    /\ updatemenus[1].active = 2
    /\ traces[2].visible
    /\ ~traces[1].visible
    /\ updatemenus[2].active = 3

\* C10: the rolling mean of n values over a window w >= 1 has n values, the
\* first min(n, w-1) absent, every later one whose w inputs are present
\* present; with w = 7 and n = 6 all six are absent.
C10_RollingEdge ==
    pc = "rolled" =>
        LET n == Len(series)
            w == rollingAve
        IN  /\ DOMAIN rolled = 1..n
            /\ \A i \in 1..n :
                  /\ i <= w - 1 => IsNaN(rolled[i])
                  /\ (i >= w /\ \A j \in (i - w + 1)..i : ~IsNaN(series[j]))
                        => ~IsNaN(rolled[i])
            /\ (w = DefaultRollingAve /\ n = 6)
                  => \A i \in 1..6 : IsNaN(rolled[i])

\* C10 witness: a window of 7 over 6 present values, all six means absent.
C10_Witness ==
    /\ pc = "rolled"
    /\ rollingAve = DefaultRollingAve
    /\ Len(series) = 6
    /\ \A i \in 1..6 : ~IsNaN(series[i])
    /\ Len(rolled) = 6
    /\ \A i \in 1..6 : IsNaN(rolled[i])

\* The number of rows of subject s in the table.
RowCount(s) == Cardinality({i \in 1..Len(dfC) : dfC[i].Country = s})

\* Every value of the array y is absent.
AllAbsent(y) == \A i \in 1..Len(y) : IsNaN(y[i])

\* C11 as stated: whenever the window is at least the number of rows of a
\* subject (the window equal to it included), every value of every series of
\* that subject is absent, in the traces and in the dropdown entries, the
\* arrays keeping the length of the subject's rows.
C11_WindowAtLeastRows ==
    /\ FigureBuilt =>
          \A j \in 1..Len(traces) :
              rollingAve >= RowCount(selected) =>
                  /\ Len(traces[j].x) = RowCount(selected)
                  /\ Len(traces[j].y) = RowCount(selected)
                  /\ AllAbsent(traces[j].y)
    /\ DropdownBuilt =>
          \A k \in 1..Len(updatemenus[2].buttons) :
              LET e == updatemenus[2].buttons[k] IN
              rollingAve >= RowCount(e.label) =>
                  \A j \in 1..Len(columns) :
                      /\ Len(e.args[1].y[j]) = RowCount(e.label)
                      /\ AllAbsent(e.args[1].y[j])

\* C11 amended: the same whenever the window is larger than the number of rows
\* of the subject.
C11_WindowAboveRows ==
    /\ FigureBuilt =>
          \A j \in 1..Len(traces) :
              rollingAve > RowCount(selected) =>
                  /\ Len(traces[j].x) = RowCount(selected)
                  /\ Len(traces[j].y) = RowCount(selected)
                  /\ AllAbsent(traces[j].y)
    /\ DropdownBuilt =>
          \A k \in 1..Len(updatemenus[2].buttons) :
              LET e == updatemenus[2].buttons[k] IN
              rollingAve > RowCount(e.label) =>
                  \A j \in 1..Len(columns) :
                      /\ Len(e.args[1].y[j]) = RowCount(e.label)
                      /\ AllAbsent(e.args[1].y[j])

\* C11 witness: a subject of two rows, none missing, selected under a window
\* of three: both traces are present with two absent values each.
C11_Witness ==
    /\ DropdownBuilt
    /\ rollingAve = 3
    /\ selected = "Brazil"
    /\ RowCount(selected) = 2
    /\ columns = <<"New_deaths", "Cumulative_cases">>
    /\ Len(traces) = 2
    /\ \A j \in 1..2 : Len(traces[j].y) = 2 /\ AllAbsent(traces[j].y)

\* C12 as stated: when a subject that matches no row of the table is in the
\* list given to createDropdown, or is the default subject, the builders signal
\* a failure and no figure (no trace, no menu entry) is produced for it.
C12_UnknownSubjectFails ==
    (\/ RowCount(country) = 0
     \/ \E k \in 1..Len(availableCountries) : RowCount(availableCountries[k]) = 0)
    => ~FigureBuilt

\* C13: a dropdown entry of a subject without rows carries empty x and y
\* arrays for every trace, the figure is built all the same, and after the
\* selection of such a subject every trace is present with empty arrays.
C13_EmptySubject ==
    DropdownBuilt =>
        /\ \A k \in 1..Len(updatemenus[2].buttons) :
              LET e == updatemenus[2].buttons[k] IN
              RowCount(e.label) = 0 =>
                  \A j \in 1..Len(columns) :
                      e.args[1].x[j] = <<>> /\ e.args[1].y[j] = <<>>
        /\ RowCount(selected) = 0 =>
              /\ Len(traces) = Len(columns)
              /\ \A j \in 1..Len(traces) :
                    traces[j].x = <<>> /\ traces[j].y = <<>>

\* C13 witness: the default subject has rows, a subject without rows was
\* selected from the second entry, and both traces are there, empty.
C13_Witness ==
    /\ DropdownBuilt
    /\ RowCount(country) = 2
    /\ selected = "Afghanistan"
    /\ RowCount("Afghanistan") = 0
    /\ updatemenus[2].active = 2
    /\ Len(builtData) = 2
    /\ Len(builtData[1].y) = 2
    /\ Len(traces) = 2
    /\ \A j \in 1..2 : traces[j].x = <<>> /\ traces[j].y = <<>>

\* C14 as stated: a rolling window that is not positive, zero included, is
\* rejected with a validation error before any trace is built, so that no
\* figure exists for such a window.
C14_BadWindowFails ==
    rollingAve <= 0 => ~FigureBuilt /\ traces = <<>>

\* The raw values of series `col` in the rows of subject s.
RawSeries(s, col) ==
    LET r == SubjectRows(s) IN [i \in 1..Len(r) |-> r[i][col]]

\* Position i of y is a gap whenever the trailing window of w raw values that
\* ends at i holds a missing value.
GapsKept(raw, y, w) ==
    /\ Len(y) = Len(raw)
    /\ \A i \in 1..Len(raw) :
          (\E j \in (i - w + 1)..i : j >= 1 /\ IsNaN(raw[j])) => IsNaN(y[i])

FirstRow(s) == CHOOSE i \in 1..Len(dfC) :
                   dfC[i].Country = s /\ \A j \in 1..(i - 1) : dfC[j].Country # s

\* The subject list of the dropdown exists.
SubjectListBuilt == pc \in {"0d3e6c1d", "done"}

\* C16: the subject list has the default subject first and the other subjects
\* in the order of their first rows in the table, each subject of the table
\* once and no other; and the first, pre-selected dropdown entry names the
\* subject whose rows createTraces put into the traces.
C16_SubjectList ==
    /\ SubjectListBuilt =>
          /\ availableCountries[1] = country
          /\ {availableCountries[i] : i \in 1..Len(availableCountries)}
                = {dfC[i].Country : i \in 1..Len(dfC)}
          /\ \A p, q \in 1..Len(availableCountries) :
                availableCountries[p] = availableCountries[q] => p = q
          /\ \A p, q \in 2..Len(availableCountries) :
                p < q => FirstRow(availableCountries[p]) < FirstRow(availableCountries[q])
    /\ DropdownBuilt =>
          /\ updatemenus[2].buttons[1].label = country
          /\ Len(updatemenus[2].buttons) = Len(availableCountries)
          /\ \A j \in 1..Len(columns) :
                builtData[j].x = SubjectDates(updatemenus[2].buttons[1].label)

\* C16 witness: three subjects, the default one last in the table and first in
\* the list, the two others behind it in table order.
C16_Witness ==
    /\ DropdownBuilt
    /\ availableCountries = <<"United States of America", "Afghanistan", "Brazil">>
    /\ dfC[Len(dfC)].Country = "United States of America"
    /\ dfC[1].Country = "Afghanistan"
    /\ updatemenus[2].buttons[1].label = "United States of America"
    /\ updatemenus[2].active = 1

\* C17: the title of a built figure names the default subject and the window,
\* whatever was selected since: a selection changes the traces, not the title.
C17_TitleKept ==
    FigureBuilt =>
        /\ title_text.country = country
        /\ title_text.rollingAve = rollingAve
        /\ selected # country => title_text.country # selected

\* C17 witness: Brazil selected from the dropdown, its data in the traces, the
\* title still naming the default subject.
C17_Witness ==
    /\ DropdownBuilt
    /\ selected = "Brazil"
    /\ updatemenus[2].buttons[updatemenus[2].active].label = "Brazil"
    /\ XY(traces) # builtData
    /\ XY(traces) = [j \in 1..Len(columns) |->
                        [x |-> updatemenus[2].buttons[updatemenus[2].active].args[1].x[j],
                         y |-> updatemenus[2].buttons[updatemenus[2].active].args[1].y[j]]]
    /\ title_text.country = "United States of America"

\* C18: in a figure with both menus, for every series button b and dropdown
\* entry d, applying b then d and d then b give the same traces, applying
\* either twice gives what applying it once gives, and the traces are those
\* the active (last used) button and the active (last used) entry determine:
\* the button's visibility vector and the entry's x/y arrays.
C18_CommuteIdempotent ==
    DropdownBuilt =>
        /\ \A i \in 1..Len(updatemenus[1].buttons) :
           \A k \in 1..Len(updatemenus[2].buttons) :
              LET b == updatemenus[1].buttons[i].args[1]
                  d == updatemenus[2].buttons[k].args[1]
              IN  /\ ApplyData(ApplyData(traces, b), d) = ApplyData(ApplyData(traces, d), b)
                  /\ ApplyData(ApplyData(traces, b), b) = ApplyData(traces, b)
                  /\ ApplyData(ApplyData(traces, d), d) = ApplyData(traces, d)
                  /\ Visibility(ApplyData(ApplyData(traces, b), d)) = b.visible
                  /\ XY(ApplyData(ApplyData(traces, d), b))
                        = [j \in 1..Len(traces) |-> [x |-> d.x[j], y |-> d.y[j]]]
        /\ Visibility(traces) = updatemenus[1].buttons[updatemenus[1].active].args[1].visible
        /\ LET d == updatemenus[2].buttons[updatemenus[2].active].args[1]
           IN  XY(traces) = [j \in 1..Len(traces) |-> [x |-> d.x[j], y |-> d.y[j]]]
        /\ selected = updatemenus[2].buttons[updatemenus[2].active].label

\* C18 witness: the second button and the third entry are the last ones used,
\* after the default entry had been selected again in between, and the traces
\* show the second series of the third subject.
C18_Witness ==
    /\ DropdownBuilt
    /\ Len(traces) = 2
    /\ updatemenus[1].active = 2
    /\ updatemenus[2].active = 3
    /\ firstData[country] # <<>>
    /\ Visibility(traces) = <<FALSE, TRUE>>
    /\ selected = availableCountries[3]
    /\ XY(traces) # builtData

\* C19: the arrays of a subject come from that subject's rows alone: in every
\* dropdown entry each y value is the trailing mean of the subject's own raw
\* values (missing while fewer than the window's number of own rows are there),
\* each y array is as long as its x array, the subject's dates, and all x
\* arrays of the entry are the same; so it is for the traces of the figure.
C19_OwnRowsOnly ==
    /\ DropdownBuilt =>
          \A k \in 1..Len(updatemenus[2].buttons) :
              LET e == updatemenus[2].buttons[k] IN
              \A j \in 1..Len(columns) :
                  LET raw == RawSeries(e.label, columns[j]) IN
                  /\ Len(e.args[1].y[j]) = Len(e.args[1].x[j])
                  /\ Len(e.args[1].x[j]) = RowCount(e.label)
                  /\ e.args[1].x[j] = e.args[1].x[1]
                  /\ \A i \in 1..Len(raw) :
                        e.args[1].y[j][i] = TrailingMean(raw, rollingAve, i)
    /\ FigureBuilt =>
          \A j \in 1..Len(traces) :
              LET raw == RawSeries(selected, columns[j]) IN
              /\ Len(traces[j].y) = Len(traces[j].x)
              /\ Len(traces[j].x) = RowCount(selected)
              /\ traces[j].x = traces[1].x
              /\ \A i \in 1..Len(raw) :
                    traces[j].y[i] = TrailingMean(raw, rollingAve, i)

\* C19 witness: a window of two rows; Brazil's rows follow two rows of
\* Afghanistan in the table, and the first value of Brazil's new deaths is
\* missing, the second the mean of Brazil's two own values 0 and 1.
C19_Witness ==
    /\ DropdownBuilt
    /\ rollingAve = 2
    /\ columns[1] = "New_deaths"
    /\ RowCount("Afghanistan") = 2
    /\ RowCount("Brazil") = 2
    /\ selected = "Brazil"
    /\ Len(traces[1].x) = 2
    /\ IsNaN(traces[1].y[1])
    /\ traces[1].y[2] = [num |-> 1, den |-> 2]

====
